---- MODULE Spec2Model ----
(***************************************************************************)
(* A model of the LiveKit voice-agent example repository:                  *)
(*   - webhook_handler.py: the Flask endpoints POST /webhook, GET /logs    *)
(*     and GET /health over the in-memory list call_logs;                  *)
(*   - agent.py: the order of SDK calls made by entrypoint;                *)
(*   - generate_token.py: generate_token and its credential check;         *)
(*   - test_agent.py: test_room_creation and its try/except/finally.       *)
(* Python values are modelled as records of one shape (PyVal), so that     *)
(* dictionaries, lists and scalars can be stored side by side.             *)
(***************************************************************************)
EXTENDS Integers, Sequences, FiniteSets, TLC

\* Bound on the length of call_logs explored by the model checker.
MaxLogs == 2

\* Bound on the number of agent jobs the worker runs.
MaxJobs == 2

\* Bound on the number of rooms list_rooms reports to test_agent.py.
MaxRooms == 3

VARIABLES
    WEBHOOK_SECRET,   \* webhook_handler.py: module global read by verify_webhook_signature
    json_strict,      \* whether the installed Werkzeug raises on a non-JSON content type
    call_logs,        \* webhook_handler.py: module global list of log entries
    request,          \* the request being answered (route, content type, body, signature)
    response,         \* the response to it: [status, body]
    raised,           \* message of the exception raised inside handle_webhook's try block, "" if none
    accepted,         \* bodies of the POST /webhook requests answered with 200, in order of arrival
    job,              \* agent.py: per job, the progress of entrypoint
    environ,          \* generate_token.py: LIVEKIT_API_KEY and LIVEKIT_API_SECRET of the process
    token_call,       \* generate_token.py: the last call of generate_token and its outcome
    test_environ,     \* test_agent.py: LIVEKIT_URL, LIVEKIT_API_KEY and LIVEKIT_API_SECRET of the process
    test              \* test_agent.py: the progress of test_room_creation

webhook_vars == <<WEBHOOK_SECRET, json_strict, call_logs, request, response, raised, accepted>>

agent_vars == <<job>>

token_vars == <<environ, token_call>>

test_vars == <<test_environ, test>>

vars == <<webhook_vars, agent_vars, token_vars, test_vars>>

----------------------------------------------------------------------------
(* Python values *)

\* t: the Python type; lit: the text of a scalar; items: the <<key, value>> pairs of
\* a dict (distinct keys) or the <<index, value>> pairs of a list.
PyVal(t, lit, items) == [t |-> t, lit |-> lit, items |-> items]

PyNone == PyVal("NoneType", "None", {})

PyStr(s) == PyVal("str", s, {})

PyInt(n) == PyVal("int", ToString(n), {})

PyList(elems) == PyVal("list", "", { <<ToString(i - 1), elems[i]>> : i \in 1..Len(elems) })

PyDict(items) == PyVal("dict", "", items)

\* bool(x): None, 0, "" and empty containers are falsy.
Truthy(x) ==
    CASE x.t = "NoneType" -> FALSE
      [] x.t = "str" -> x.lit # ""
      [] x.t = "int" -> x.lit # "0"
      [] OTHER -> x.items # {}

HasKey(d, key) == \E p \in d.items : p[1] = key

Lookup(d, key) == (CHOOSE p \in d.items : p[1] = key)[2]

\* A call's outcome: the value returned, or the message of the exception raised.
Ret(v) == [ret |-> v, exc |-> ""]

Raise(msg) == [ret |-> PyNone, exc |-> msg]

\* obj.get(key, default): dict.get on a dict, AttributeError on anything else.
Get(obj, key, default) ==
    IF obj.t = "dict"
    THEN Ret(IF HasKey(obj, key) THEN Lookup(obj, key) ELSE default)
    ELSE Raise("'" \o obj.t \o "' object has no attribute 'get'")

\* obj[key] on a dict: KeyError when the key is missing.
Item(obj, key) ==
    IF obj.t = "dict" /\ HasKey(obj, key)
    THEN Ret(Lookup(obj, key))
    ELSE Raise("KeyError: '" \o key \o "'")

----------------------------------------------------------------------------
(* Requests to POST /webhook *)

BODY_EMPTY == ""

BODY_GARBAGE == "not json"

BODY_NULL == "null"

BODY_EMPTY_OBJ == "{}"

BODY_ARR == "[1]"

BODY_NUM == "5"

BODY_ROOM_STARTED == "{\"event\":\"room_started\",\"room\":{\"sid\":\"RM_1\",\"name\":\"demo\"}}"

BODY_JOINED == "{\"event\":\"participant_joined\",\"room\":{\"name\":\"demo\"},\"participant\":{\"identity\":\"alice\"}}"

BODY_ROOM_NULL == "{\"event\":\"room_started\",\"room\":null}"

BODY_ROOM_STR == "{\"event\":\"room_started\",\"room\":\"demo\"}"

BODY_PART_NULL == "{\"id\":\"EV_1\",\"participant\":null}"

BODY_PART_STR == "{\"event\":\"participant_left\",\"participant\":\"alice\"}"

\* Bodies that are JSON texts, and all raw bodies a request may carry.
JsonBodies ==
    { BODY_NULL, BODY_EMPTY_OBJ, BODY_ARR, BODY_NUM,
      BODY_ROOM_STARTED, BODY_JOINED, BODY_ROOM_NULL, BODY_ROOM_STR,
      BODY_PART_NULL, BODY_PART_STR }

Bodies == JsonBodies \cup { BODY_EMPTY, BODY_GARBAGE }

ContentTypes == { "application/json", "text/plain" }

\* json.loads on the bodies above.
json_loads(text) ==
    CASE text = BODY_NULL -> Ret(PyNone)
      [] text = BODY_EMPTY_OBJ -> Ret(PyDict({}))
      [] text = BODY_ARR -> Ret(PyList(<<PyInt(1)>>))
      [] text = BODY_NUM -> Ret(PyInt(5))
      [] text = BODY_ROOM_STARTED ->
            Ret(PyDict({ <<"event", PyStr("room_started")>>,
                         <<"room", PyDict({ <<"sid", PyStr("RM_1")>>,
                                            <<"name", PyStr("demo")>> })>> }))
      [] text = BODY_JOINED ->
            Ret(PyDict({ <<"event", PyStr("participant_joined")>>,
                         <<"room", PyDict({ <<"name", PyStr("demo")>> })>>,
                         <<"participant", PyDict({ <<"identity", PyStr("alice")>> })>> }))
      [] text = BODY_ROOM_NULL ->
            Ret(PyDict({ <<"event", PyStr("room_started")>>, <<"room", PyNone>> }))
      [] text = BODY_ROOM_STR ->
            Ret(PyDict({ <<"event", PyStr("room_started")>>, <<"room", PyStr("demo")>> }))
      [] text = BODY_PART_NULL ->
            Ret(PyDict({ <<"id", PyStr("EV_1")>>, <<"participant", PyNone>> }))
      [] text = BODY_PART_STR ->
            Ret(PyDict({ <<"event", PyStr("participant_left")>>,
                         <<"participant", PyStr("alice")>> }))
      [] OTHER -> Raise("JSONDecodeError")

\* hmac.new(key, payload, sha256).hexdigest(): one digest per (key, payload).
hexdigest(key, payload) == "hmac-sha256(" \o key \o "," \o payload \o ")"

\* A header value holding a byte above 0x7f (decoded as latin-1 by the WSGI layer).
NON_ASCII_SIGNATURE == "sig\\xe9"

IsAscii(s) == s # NON_ASCII_SIGNATURE

\* hmac.compare_digest on two str: TypeError unless both are ASCII.
compare_digest(a, b) ==
    IF IsAscii(a) /\ IsAscii(b)
    THEN [ret |-> a = b, exc |-> ""]
    ELSE [ret |-> FALSE, exc |-> "comparing strings with non-ASCII characters is not supported"]

Secrets == { "", "s3cret" }

WebhookRequest(ctype, body, signature) ==
    [route |-> "POST /webhook", ctype |-> ctype, body |-> body, signature |-> signature]

\* The X-LiveKit-Signature header sent with a body: absent (""), the digest under
\* the secret "s3cret", a digest under another key, or a value that is not ASCII.
SignatureOf(kind, body) ==
    CASE kind = "absent" -> ""
      [] kind = "signed" -> hexdigest("s3cret", body)
      [] kind = "forged" -> hexdigest("other", body)
      [] kind = "non-ascii" -> NON_ASCII_SIGNATURE

\* The requests explored.
WebhookRequests ==
    { WebhookRequest("application/json", b, SignatureOf(k, b)) :
        b \in Bodies, k \in { "absent", "signed" } }
    \cup
    { WebhookRequest("text/plain", b, SignatureOf(k, b)) :
        b \in { BODY_EMPTY, BODY_ROOM_STARTED }, k \in { "absent", "signed" } }
    \cup
    { WebhookRequest("application/json", b, SignatureOf(k, b)) :
        b \in { BODY_EMPTY, BODY_GARBAGE, BODY_ROOM_STARTED, BODY_ROOM_NULL },
        k \in { "forged", "non-ascii" } }

GetRequest(route) == [route |-> route, ctype |-> "", body |-> "", signature |-> ""]

\* The values of datetime.utcnow().isoformat() explored.
Timestamps == { "2025-01-01T00:00:00" }

----------------------------------------------------------------------------
(* webhook_handler.py *)

\* Mutant of verify_webhook_signature: the digest is compared even without a secret.
verify_webhook_signature_no_skip(payload, signature) ==
    compare_digest(hexdigest(WEBHOOK_SECRET, payload), signature)

verify_webhook_signature(payload, signature) ==
    IF WEBHOOK_SECRET = ""
    THEN [ret |-> TRUE, exc |-> ""]
    ELSE compare_digest(hexdigest(WEBHOOK_SECRET, payload), signature)

\* request.json: Request.get_json() with force and silent off.
request_json(req) ==
    IF req.ctype # "application/json"
    THEN IF json_strict
         THEN Raise("415 Unsupported Media Type: Did not attempt to load JSON data because the request Content-Type was not 'application/json'.")
         ELSE Ret(PyNone)
    ELSE IF json_loads(req.body).exc # ""
         THEN Raise("400 Bad Request: The browser (or proxy) sent a request that this server could not understand.")
         ELSE json_loads(req.body)

\* The first exception raised in a sequence of evaluations, "" if none.
FirstExc(outs) ==
    IF \E i \in 1..Len(outs) : outs[i].exc # ""
    THEN outs[CHOOSE i \in 1..Len(outs) :
                 /\ outs[i].exc # ""
                 /\ \A j \in 1..(i - 1) : outs[j].exc = ""].exc
    ELSE ""

\* webhook_data.get(outer, {}).get(inner)
GetNested(webhook_data, outer, inner) ==
    IF Get(webhook_data, outer, PyDict({})).exc # ""
    THEN Get(webhook_data, outer, PyDict({}))
    ELSE Get(Get(webhook_data, outer, PyDict({})).ret, inner, PyNone)

extract_webhook_fields(webhook_data) ==
    LET event_type == Get(webhook_data, "event", PyNone)
        event_id == Get(webhook_data, "id", PyNone)
        created_at == Get(webhook_data, "createdAt", PyNone)
        room_sid == GetNested(webhook_data, "room", "sid")
        room_name == GetNested(webhook_data, "room", "name")
        room_num == GetNested(webhook_data, "room", "numParticipants")
        room_time == GetNested(webhook_data, "room", "creationTime")
        has_participant == Get(webhook_data, "participant", PyNone)
        p_sid == GetNested(webhook_data, "participant", "sid")
        p_identity == GetNested(webhook_data, "participant", "identity")
        p_joined == GetNested(webhook_data, "participant", "joinedAt")
        with_participant == has_participant.exc = "" /\ Truthy(has_participant.ret)
        evaluated ==
            <<event_type, event_id, created_at, room_sid, room_name, room_num, room_time,
              has_participant>>
            \o (IF with_participant THEN <<p_sid, p_identity, p_joined>> ELSE <<>>)
    IN  IF FirstExc(evaluated) # ""
        THEN Raise(FirstExc(evaluated))
        ELSE Ret(PyDict({
                <<"event_type", event_type.ret>>,
                <<"event_id", event_id.ret>>,
                <<"created_at", created_at.ret>>,
                <<"room_info", PyDict({ <<"sid", room_sid.ret>>,
                                        <<"name", room_name.ret>>,
                                        <<"num_participants", room_num.ret>>,
                                        <<"creation_time", room_time.ret>> })>>,
                <<"participant_info",
                  IF with_participant
                  THEN PyDict({ <<"sid", p_sid.ret>>,
                                <<"identity", p_identity.ret>>,
                                <<"joined_at", p_joined.ret>> })
                  ELSE PyNone>> }))

\* jsonify(...), status: the response of a view.
Response(status, body) == [status |-> status, body |-> body]

ErrorBody(msg) == PyDict({ <<"error", PyStr(msg)>> })

\* The outcome of the try block: a response returned or an exception raised,
\* with call_logs as the block left it.
Returned(status, body, logs) ==
    [exc |-> "", response |-> Response(status, body), logs |-> logs]

Raised(msg, logs) ==
    [exc |-> msg, response |-> Response(0, PyNone), logs |-> logs]

\* Mutant of append: the entry is inserted at the front.
append_at_front(logs, log_entry) == <<log_entry>> \o logs

\* call_logs.append(log_entry)
append(logs, log_entry) == Append(logs, log_entry)

\* Lines 445-458: the console logging and the success response after the append.
after_append(extracted_data, logs) ==
    LET event_type == Item(extracted_data, "event_type")
        room_info == Item(extracted_data, "room_info")
        room_name == IF room_info.exc # "" THEN room_info ELSE Item(room_info.ret, "name")
        participant_info == Item(extracted_data, "participant_info")
        identity ==
            IF participant_info.exc = "" /\ Truthy(participant_info.ret)
            THEN Item(participant_info.ret, "identity")
            ELSE participant_info
        evaluated == <<event_type, room_name, identity>>
    IN  IF FirstExc(evaluated) # ""
        THEN Raised(FirstExc(evaluated), logs)
        ELSE Returned(200,
                      PyDict({ <<"status", PyStr("success")>>,
                               <<"event_processed", event_type.ret>> }),
                      logs)

\* Mutant of process_webhook: the entry is appended before the fields are extracted.
process_webhook_append_first(webhook_data, now) ==
    LET extracted_data == extract_webhook_fields(webhook_data)
        raw_entry == PyDict({ <<"timestamp", PyStr(now)>>,
                              <<"raw_webhook", webhook_data>> })
    IN  IF extracted_data.exc # ""
        THEN Raised(extracted_data.exc, append(call_logs, raw_entry))
        ELSE after_append(extracted_data.ret, append(call_logs, raw_entry))

\* Lines 433-458: extraction, the log entry, the append and what follows it.
process_webhook(webhook_data, now) ==
    LET extracted_data == extract_webhook_fields(webhook_data)
        log_entry == PyDict({ <<"timestamp", PyStr(now)>>,
                              <<"raw_webhook", webhook_data>>,
                              <<"extracted_fields", extracted_data.ret>> })
    IN  IF extracted_data.exc # ""
        THEN Raised(extracted_data.exc, call_logs)
        ELSE after_append(extracted_data.ret, append(call_logs, log_entry))

\* Lines 418-458: the body of handle_webhook's try statement.
try_block(req, now) ==
    LET verified == verify_webhook_signature(req.body, req.signature)
        webhook_data == request_json(req)
    IN  IF verified.exc # ""
        THEN Raised(verified.exc, call_logs)
        ELSE IF ~verified.ret
        THEN Returned(401, ErrorBody("Invalid signature"), call_logs)
        ELSE IF webhook_data.exc # ""
        THEN Raised(webhook_data.exc, call_logs)
        ELSE IF ~Truthy(webhook_data.ret)
        THEN Returned(400, ErrorBody("No data provided"), call_logs)
        ELSE process_webhook(webhook_data.ret, now)

\* Mutant of except_handler: the exception is reported as a client error.
except_handler_bad_request(msg) == Response(400, ErrorBody(msg))

\* Lines 460-462: except Exception as e.
except_handler(msg) == Response(500, ErrorBody(msg))

handle_webhook(req, now) ==
    LET tried == try_block(req, now)
    IN  [ raised |-> tried.exc,
          response |-> IF tried.exc # "" THEN except_handler(tried.exc) ELSE tried.response,
          logs |-> tried.logs ]

\* Mutant of get_logs: the newest entry is left out of the listing.
get_logs_stale ==
    Response(200, PyDict({ <<"total_events", PyInt(Len(call_logs))>>,
                           <<"logs", PyList(SubSeq(call_logs, 1, Len(call_logs) - 1))>> }))

get_logs ==
    Response(200, PyDict({ <<"total_events", PyInt(Len(call_logs))>>,
                           <<"logs", PyList(call_logs)>> }))

\* Mutant of health_check: the status depends on the log list.
health_check_by_load ==
    Response(200, PyDict({ <<"status", PyStr(IF call_logs = <<>> THEN "healthy" ELSE "busy")>>,
                           <<"service", PyStr("webhook_handler")>> }))

health_check ==
    Response(200, PyDict({ <<"status", PyStr("healthy")>>,
                           <<"service", PyStr("webhook_handler")>> }))

----------------------------------------------------------------------------
(* The webhook server: one request at a time *)

WebhookInit ==
    /\ WEBHOOK_SECRET \in Secrets
    /\ json_strict \in BOOLEAN
    /\ call_logs = <<>>
    /\ request = GetRequest("none")
    /\ response = Response(0, PyNone)
    /\ raised = ""
    /\ accepted = <<>>

PostWebhook ==
    \E req \in WebhookRequests, now \in Timestamps :
        LET done == handle_webhook(req, now)
        IN  /\ Len(done.logs) <= MaxLogs
            /\ request' = req
            /\ response' = done.response
            /\ raised' = done.raised
            /\ call_logs' = done.logs
            /\ accepted' = IF done.response.status = 200
                           THEN Append(accepted, req.body)
                           ELSE accepted
            /\ UNCHANGED <<WEBHOOK_SECRET, json_strict, agent_vars, token_vars, test_vars>>

GetLogs ==
    /\ request' = GetRequest("GET /logs")
    /\ response' = get_logs
    /\ raised' = ""
    /\ UNCHANGED <<WEBHOOK_SECRET, json_strict, call_logs, accepted, agent_vars, token_vars, test_vars>>

GetHealth ==
    /\ request' = GetRequest("GET /health")
    /\ response' = health_check
    /\ raised' = ""
    /\ UNCHANGED <<WEBHOOK_SECRET, json_strict, call_logs, accepted, agent_vars, token_vars, test_vars>>

----------------------------------------------------------------------------
(* agent.py: entrypoint, one run per job *)

Jobs == 1..MaxJobs

\* An awaited SDK call either completes or raises.
Outcomes == { "completed", "raised" }

JobStart ==
    [pc |-> "create_webhook_handler", webhook_handler |-> "unset",
     calls |-> <<>>, shutdown_callbacks |-> <<>>]

\* Line 57: create_webhook_handler(...) returns a handler object or None.
create_webhook_handler(j) ==
    /\ job[j].pc = "create_webhook_handler"
    /\ \E h \in { "handler", "None" } :
          job' = [job EXCEPT ![j].webhook_handler = h,
                             ![j].calls = Append(@, "create_webhook_handler"),
                             ![j].pc = "AgentSession"]
    /\ UNCHANGED <<webhook_vars, token_vars, test_vars>>

\* Line 65: session = voice.AgentSession(...)
AgentSession(j) ==
    /\ job[j].pc = "AgentSession"
    /\ job' = [job EXCEPT ![j].calls = Append(@, "AgentSession"),
                          ![j].pc = "session.start"]
    /\ UNCHANGED <<webhook_vars, token_vars, test_vars>>

\* Line 72: await session.start(...); recorded in calls when it has completed.
session_start(j) ==
    /\ job[j].pc = "session.start"
    /\ \E outcome \in Outcomes :
          job' = IF outcome = "completed"
                 THEN [job EXCEPT ![j].calls = Append(@, "session.start"),
                                  ![j].pc = "if webhook_handler"]
                 ELSE [job EXCEPT ![j].pc = "raised"]
    /\ UNCHANGED <<webhook_vars, token_vars, test_vars>>

\* Mutant of if_webhook_handler: the handler is attached without the test.
if_webhook_handler_skipped(j) ==
    /\ job[j].pc = "if webhook_handler"
    /\ job' = [job EXCEPT ![j].pc = "attach_to_session"]
    /\ UNCHANGED <<webhook_vars, token_vars, test_vars>>

\* Line 77: if webhook_handler:
if_webhook_handler(j) ==
    /\ job[j].pc = "if webhook_handler"
    /\ job' = [job EXCEPT ![j].pc = IF job[j].webhook_handler = "handler"
                                    THEN "attach_to_session"
                                    ELSE "ctx.connect"]
    /\ UNCHANGED <<webhook_vars, token_vars, test_vars>>

\* Line 78: await webhook_handler.attach_to_session(session)
attach_to_session(j) ==
    /\ job[j].pc = "attach_to_session"
    /\ \E outcome \in Outcomes :
          job' = IF outcome = "completed"
                 THEN [job EXCEPT ![j].calls = Append(@, "attach_to_session"),
                                  ![j].pc = "add_shutdown_callback"]
                 ELSE [job EXCEPT ![j].pc = "raised"]
    /\ UNCHANGED <<webhook_vars, token_vars, test_vars>>

\* Line 81: ctx.add_shutdown_callback(webhook_handler.send_webhook)
add_shutdown_callback(j) ==
    /\ job[j].pc = "add_shutdown_callback"
    /\ job' = [job EXCEPT ![j].shutdown_callbacks = Append(@, "send_webhook"),
                          ![j].calls = Append(@, "add_shutdown_callback"),
                          ![j].pc = "ctx.connect"]
    /\ UNCHANGED <<webhook_vars, token_vars, test_vars>>

\* Line 85: await ctx.connect(...); recorded in calls when it is called.
ctx_connect(j) ==
    /\ job[j].pc = "ctx.connect"
    /\ \E outcome \in Outcomes :
          job' = [job EXCEPT ![j].calls = Append(@, "ctx.connect"),
                             ![j].pc = IF outcome = "completed" THEN "returned" ELSE "raised"]
    /\ UNCHANGED <<webhook_vars, token_vars, test_vars>>

entrypoint(j) ==
    \/ create_webhook_handler(j)
    \/ AgentSession(j)
    \/ session_start(j)
    \/ if_webhook_handler(j)
    \/ attach_to_session(j)
    \/ add_shutdown_callback(j)
    \/ ctx_connect(j)

AgentInit == job = [j \in Jobs |-> JobStart]

----------------------------------------------------------------------------
(* generate_token.py *)

\* What os.getenv returns for a credential: None when unset, else the string.
ApiKeys == { PyNone, PyStr(""), PyStr("APIabc") }

ApiSecrets == { PyNone, PyStr(""), PyStr("secret") }

\* Lines typed at the two prompts of the main block.
TypedRooms == { "", "  ", "my-room", " demo ", "lobby" }

TypedUsers == { "", "alice", " bob" }

\* str.strip() on the typed lines.
strip(s) ==
    CASE s = "  " -> ""
      [] s = " demo " -> "demo"
      [] s = " bob" -> "bob"
      [] OTHER -> s

\* x or default
Or(x, default) == IF x # "" THEN x ELSE default

getenv(name) == environ[name]

\* token.to_jwt(): the signed token, a str.
to_jwt(api_key, api_secret, identity, name, room) ==
    "jwt(" \o api_key \o "," \o api_secret \o "," \o identity \o "," \o name \o "," \o room \o ")"

\* Mutant of generate_token: the check fails only when both credentials are missing.
generate_token_and(room_name, participant_identity) ==
    LET api_key == getenv("LIVEKIT_API_KEY")
        api_secret == getenv("LIVEKIT_API_SECRET")
    IN  IF ~Truthy(api_key) /\ ~Truthy(api_secret)
        THEN [ret |-> PyNone, sdk_calls |-> <<>>]
        ELSE [ret |-> PyStr(to_jwt(api_key.lit, api_secret.lit, participant_identity,
                                   participant_identity, room_name)),
              sdk_calls |-> <<"AccessToken", "with_identity", "with_name",
                              "VideoGrants", "with_grants", "to_jwt">>]

\* The value returned and the SDK calls made on the way.
generate_token(room_name, participant_identity) ==
    LET api_key == getenv("LIVEKIT_API_KEY")
        api_secret == getenv("LIVEKIT_API_SECRET")
    IN  IF ~Truthy(api_key) \/ ~Truthy(api_secret)
        THEN [ret |-> PyNone, sdk_calls |-> <<>>]
        ELSE [ret |-> PyStr(to_jwt(api_key.lit, api_secret.lit, participant_identity,
                                   participant_identity, room_name)),
              sdk_calls |-> <<"AccessToken", "with_identity", "with_name",
                              "VideoGrants", "with_grants", "to_jwt">>]

NotCalled ==
    [called |-> FALSE, room_name |-> "", participant_identity |-> "",
     ret |-> PyNone, sdk_calls |-> <<>>]

TokenInit ==
    /\ environ \in [LIVEKIT_API_KEY : ApiKeys, LIVEKIT_API_SECRET : ApiSecrets]
    /\ token_call = NotCalled

\* Lines 54-59: the main block reads the two names and calls generate_token.
Main ==
    \E typed_room \in TypedRooms, typed_user \in TypedUsers :
        LET ROOM_NAME == Or(strip(typed_room), "test-room")
            USER_ID == Or(strip(typed_user), "test-user")
        IN  /\ token_call' = [called |-> TRUE,
                              room_name |-> ROOM_NAME,
                              participant_identity |-> USER_ID,
                              ret |-> generate_token(ROOM_NAME, USER_ID).ret,
                              sdk_calls |-> generate_token(ROOM_NAME, USER_ID).sdk_calls]
            /\ UNCHANGED <<environ, webhook_vars, agent_vars, test_vars>>

----------------------------------------------------------------------------
(* test_agent.py: test_room_creation *)

TestUrls == { PyNone, PyStr(""), PyStr("wss://demo.livekit.cloud") }

\* An awaited call completes, raises an Exception, or is cancelled (Ctrl+C under
\* asyncio.run raises CancelledError, which is not an Exception).
AwaitOutcomes == { "completed", "raised", "cancelled" }

\* pending: the exception on its way out of the try statement, "" if none.
TestStart == [pc |-> "getenv", calls |-> <<>>, pending |-> "", rooms |-> 0, i |-> 0]

\* Where control goes from inside the try block after a call's outcome.
AfterCall(outcome, next_pc) ==
    CASE outcome = "completed" -> [test EXCEPT !.pc = next_pc]
      [] outcome = "raised" -> [test EXCEPT !.pc = "except"]
      [] outcome = "cancelled" -> [test EXCEPT !.pc = "finally", !.pending = "CancelledError"]

\* Lines 25-31: the three credentials are read; any missing one ends the function.
test_getenv ==
    /\ test.pc = "getenv"
    /\ test' = [test EXCEPT !.pc =
                  IF /\ Truthy(test_environ.LIVEKIT_URL)
                     /\ Truthy(test_environ.LIVEKIT_API_KEY)
                     /\ Truthy(test_environ.LIVEKIT_API_SECRET)
                  THEN "LiveKitAPI"
                  ELSE "returned"]
    /\ UNCHANGED <<test_environ, webhook_vars, agent_vars, token_vars>>

\* Lines 34-38: livekit_api = api.LiveKitAPI(...), outside the try statement.
test_LiveKitAPI ==
    /\ test.pc = "LiveKitAPI"
    /\ \E outcome \in Outcomes :
          test' = IF outcome = "completed"
                  THEN [test EXCEPT !.calls = Append(@, "LiveKitAPI"), !.pc = "create_room"]
                  ELSE [test EXCEPT !.pc = "propagated", !.pending = "Exception"]
    /\ UNCHANGED <<test_environ, webhook_vars, agent_vars, token_vars>>

\* Lines 45-54: room = await livekit_api.room.create_room(...)
test_create_room ==
    /\ test.pc = "create_room"
    /\ \E outcome \in AwaitOutcomes :
          test' = IF outcome = "completed"
                  THEN [test EXCEPT !.calls = Append(@, "create_room"), !.pc = "to_jwt"]
                  ELSE AfterCall(outcome, "to_jwt")
    /\ UNCHANGED <<test_environ, webhook_vars, agent_vars, token_vars>>

\* Lines 57-66: the participant token.
test_to_jwt ==
    /\ test.pc = "to_jwt"
    /\ \E outcome \in Outcomes :
          test' = IF outcome = "completed"
                  THEN [test EXCEPT !.calls = Append(@, "to_jwt"), !.pc = "list_rooms"]
                  ELSE AfterCall(outcome, "list_rooms")
    /\ UNCHANGED <<test_environ, webhook_vars, agent_vars, token_vars>>

\* Lines 69-70: rooms = await livekit_api.room.list_rooms(...)
test_list_rooms ==
    /\ test.pc = "list_rooms"
    /\ \E outcome \in AwaitOutcomes :
          IF outcome = "completed"
          THEN \E n \in 0..MaxRooms :
                  test' = [test EXCEPT !.calls = Append(@, "list_rooms"),
                                       !.rooms = n, !.i = 0, !.pc = "for"]
          ELSE test' = AfterCall(outcome, "for")
    /\ UNCHANGED <<test_environ, webhook_vars, agent_vars, token_vars>>

\* Lines 72-84: one room is logged per iteration, then the instructions.
test_for ==
    /\ test.pc = "for"
    /\ test' = IF test.i < test.rooms
               THEN [test EXCEPT !.i = @ + 1]
               ELSE [test EXCEPT !.pc = "sleep"]
    /\ UNCHANGED <<test_environ, webhook_vars, agent_vars, token_vars>>

\* Lines 87-88: await asyncio.sleep(300)
test_sleep ==
    /\ test.pc = "sleep"
    /\ \E outcome \in { "completed", "cancelled" } :
          test' = IF outcome = "completed"
                  THEN [test EXCEPT !.pc = "finally"]
                  ELSE AfterCall(outcome, "finally")
    /\ UNCHANGED <<test_environ, webhook_vars, agent_vars, token_vars>>

\* Mutant of test_except: the handler returns without reaching the finally clause.
test_except_returns ==
    /\ test.pc = "except"
    /\ test' = [test EXCEPT !.pc = "returned"]
    /\ UNCHANGED <<test_environ, webhook_vars, agent_vars, token_vars>>

\* Lines 90-91: except Exception as e: the error is logged.
test_except ==
    /\ test.pc = "except"
    /\ test' = [test EXCEPT !.pc = "finally"]
    /\ UNCHANGED <<test_environ, webhook_vars, agent_vars, token_vars>>

\* Lines 92-93: finally: await livekit_api.aclose(); recorded when it is called.
test_finally ==
    /\ test.pc = "finally"
    /\ \E outcome \in AwaitOutcomes :
          test' = [test EXCEPT
                     !.calls = Append(@, "aclose"),
                     !.pending = CASE outcome = "completed" -> @
                                   [] outcome = "raised" -> "Exception"
                                   [] outcome = "cancelled" -> "CancelledError",
                     !.pc = IF outcome = "completed" /\ test.pending = ""
                            THEN "returned"
                            ELSE "propagated"]
    /\ UNCHANGED <<test_environ, webhook_vars, agent_vars, token_vars>>

test_room_creation ==
    \/ test_getenv
    \/ test_LiveKitAPI
    \/ test_create_room
    \/ test_to_jwt
    \/ test_list_rooms
    \/ test_for
    \/ test_sleep
    \/ test_except
    \/ test_finally

TestInit ==
    /\ test_environ \in [LIVEKIT_URL : TestUrls,
                         LIVEKIT_API_KEY : ApiKeys,
                         LIVEKIT_API_SECRET : ApiSecrets]
    /\ test = TestStart

----------------------------------------------------------------------------
(* Specifications: the three programs run as separate processes *)

\* The state of a program that is not running.
WebhookIdle ==
    /\ WEBHOOK_SECRET = ""
    /\ json_strict = TRUE
    /\ call_logs = <<>>
    /\ request = GetRequest("none")
    /\ response = Response(0, PyNone)
    /\ raised = ""
    /\ accepted = <<>>

AgentIdle == job = [j \in Jobs |-> JobStart]

TokenIdle ==
    /\ environ = [LIVEKIT_API_KEY |-> PyNone, LIVEKIT_API_SECRET |-> PyNone]
    /\ token_call = NotCalled

TestIdle ==
    /\ test_environ = [LIVEKIT_URL |-> PyNone, LIVEKIT_API_KEY |-> PyNone,
                       LIVEKIT_API_SECRET |-> PyNone]
    /\ test = TestStart

\* webhook_handler.py serving requests.
Init == WebhookInit /\ AgentIdle /\ TokenIdle /\ TestIdle

Next == PostWebhook \/ GetLogs \/ GetHealth

Spec == Init /\ [][Next]_vars

\* agent.py running entrypoint for each job.
InitAgent == WebhookIdle /\ AgentInit /\ TokenIdle /\ TestIdle

NextAgent == \E j \in Jobs : entrypoint(j)

SpecAgent == InitAgent /\ [][NextAgent]_vars

\* generate_token.py.
InitToken == WebhookIdle /\ AgentIdle /\ TokenInit /\ TestIdle

NextToken == Main

SpecToken == InitToken /\ [][NextToken]_vars

\* test_agent.py.
InitTest == WebhookIdle /\ AgentIdle /\ TokenIdle /\ TestInit

NextTest == test_room_creation

SpecTest == InitTest /\ [][NextTest]_vars

----------------------------------------------------------------------------
(* Properties *)

IsPrefix(s, t) == Len(s) <= Len(t) /\ SubSeq(t, 1, Len(s)) = s

IsWebhook(req) == req.route = "POST /webhook"

\* The request passed the signature check: verify_webhook_signature returned True.
PassesSignatureCheck(req) ==
    /\ verify_webhook_signature(req.body, req.signature).exc = ""
    /\ verify_webhook_signature(req.body, req.signature).ret

\* C1: with a webhook secret configured, a POST /webhook request whose
\* X-LiveKit-Signature value ("" when absent) differs from the hex HMAC-SHA256 of
\* the raw body under that secret is answered 401 {"error": "Invalid signature"}.
\* (The claim's digest is "computed with the webhook secret": the case of no
\* configured secret is left to C11.)
C1_MismatchGets401 ==
    (/\ IsWebhook(request)
     /\ WEBHOOK_SECRET # ""
     /\ request.signature # hexdigest(WEBHOOK_SECRET, request.body))
    => response = Response(401, PyDict({ <<"error", PyStr("Invalid signature")>> }))

\* C2: every POST /webhook request with a JSON content type whose body is valid
\* JSON and which passes the signature check appends exactly one entry to the log
\* list and is answered 200.
C2_ValidJsonAppendsOne ==
    [][ (/\ IsWebhook(request')
         /\ request'.ctype = "application/json"
         /\ request'.body \in JsonBodies
         /\ PassesSignatureCheck(request'))
        => (/\ Len(call_logs') = Len(call_logs) + 1
            /\ response'.status = 200) ]_vars

\* C3: the log list is append-only: across every step the list before is a prefix
\* of the list after.
C3_AppendOnly == [][IsPrefix(call_logs, call_logs')]_vars

\* A state where a request was served over a list of two different entries.
C3_Witness ==
    /\ Len(call_logs) >= 2
    /\ call_logs[1] # call_logs[2]
    /\ request.route \in { "GET /logs", "GET /health", "POST /webhook" }

\* C4: a POST /webhook request that passes the signature check and carries no JSON
\* body (an empty body, or a body with no JSON content type) is answered
\* 400 {"error": "No data provided"}.
C4_NoJsonBodyGets400 ==
    (/\ IsWebhook(request)
     /\ PassesSignatureCheck(request)
     /\ (request.body = BODY_EMPTY \/ request.ctype # "application/json"))
    => response = Response(400, PyDict({ <<"error", PyStr("No data provided")>> }))

\* C5: every POST /webhook request is answered 200, 400, 401 or 500; the status is
\* 500, with the exception's message as the "error" field, exactly when an
\* exception was raised while handling it; 401 and 400 are the fixed signature and
\* missing-data answers, given without any exception.
C5_StatusTaxonomy ==
    IsWebhook(request) =>
        /\ response.status \in { 200, 400, 401, 500 }
        /\ (response.status = 500) <=> (raised # "")
        /\ response.status = 500 => response.body = PyDict({ <<"error", PyStr(raised)>> })
        /\ response.status = 401 =>
              response.body = PyDict({ <<"error", PyStr("Invalid signature")>> })
        /\ response.status = 400 =>
              response.body = PyDict({ <<"error", PyStr("No data provided")>> })

\* A POST /webhook during which an exception was raised.
C5_Witness == IsWebhook(request) /\ raised # "" /\ response.status = 500

\* C6: GET /health is answered with the fixed body
\* {"status": "healthy", "service": "webhook_handler"} from every state, and the
\* log list is the same after it as before.
C6_HealthFixed ==
    [][ request'.route = "GET /health"
        => (/\ response'.body = PyDict({ <<"status", PyStr("healthy")>>,
                                         <<"service", PyStr("webhook_handler")>> })
            /\ call_logs' = call_logs) ]_vars

\* GET /health answered after webhooks were logged.
C6_Witness == request.route = "GET /health" /\ call_logs # <<>>

\* C8: GET /logs returns the whole log list in order of arrival: its logs are the
\* bodies answered 200 since the start, in that order; total_events is their
\* number; and the list is the same after the request as before.
C8_LogsComplete ==
    [][ request'.route = "GET /logs"
        => (/\ Lookup(response'.body, "logs") = PyList(call_logs)
            /\ Lookup(response'.body, "total_events") = PyInt(Len(call_logs))
            /\ Len(call_logs) = Len(accepted)
            /\ \A i \in 1..Len(call_logs) :
                  Lookup(call_logs[i], "raw_webhook") = json_loads(accepted[i]).ret
            /\ call_logs' = call_logs) ]_vars

\* GET /logs answered over two logged webhooks that differ.
C8_Witness ==
    /\ request.route = "GET /logs"
    /\ Len(accepted) >= 2
    /\ accepted[1] # accepted[2]

\* C10: a POST /webhook answered with a status other than 200 leaves the log list
\* as it was: an entry is appended only by a request answered 200, and no
\* exception is raised once the entry has been appended.
C10_FailureLeavesLogs ==
    [][ (IsWebhook(request') /\ (response'.status # 200 \/ raised' # ""))
        => call_logs' = call_logs ]_vars

\* A failed POST /webhook (an exception in field extraction) over a non-empty list.
C10_Witness ==
    /\ IsWebhook(request)
    /\ response.status = 500
    /\ request.body \in { BODY_ROOM_NULL, BODY_ARR, BODY_PART_STR }
    /\ call_logs # <<>>

\* The position of the first occurrence of a call in a job's calls, 0 if it was not made.
Pos(calls, name) ==
    IF \E i \in 1..Len(calls) : calls[i] = name
    THEN CHOOSE i \in 1..Len(calls) :
            calls[i] = name /\ \A k \in 1..(i - 1) : calls[k] # name
    ELSE 0

Count(calls, name) == Cardinality({ i \in 1..Len(calls) : calls[i] = name })

\* C7: generate_token(room_name, participant_identity) returns a str token when
\* LIVEKIT_API_KEY and LIVEKIT_API_SECRET are both set and non-empty; when either is
\* unset or empty it returns None and makes no SDK call (no AccessToken is built).
C7_TokenOrNone ==
    token_call.called =>
        IF /\ environ.LIVEKIT_API_KEY \notin { PyNone, PyStr("") }
           /\ environ.LIVEKIT_API_SECRET \notin { PyNone, PyStr("") }
        THEN token_call.ret.t = "str" /\ token_call.ret.lit # ""
        ELSE token_call.ret = PyNone /\ token_call.sdk_calls = <<>>

\* generate_token was called with the key set and the secret unset.
C7_Witness ==
    /\ token_call.called
    /\ environ.LIVEKIT_API_KEY = PyStr("APIabc")
    /\ environ.LIVEKIT_API_SECRET = PyNone

\* C9: in entrypoint, attach_to_session is called only after session.start() has
\* completed and before ctx.connect() is called; send_webhook is registered as a
\* shutdown callback exactly when a handler was created, and neither happens when
\* create_webhook_handler returned a falsy value.
C9_AttachOrder ==
    \A j \in Jobs :
        LET calls == job[j].calls
            created == job[j].webhook_handler = "handler"
            attached == Pos(calls, "attach_to_session") > 0
            registered == job[j].shutdown_callbacks # <<>>
            connecting == Pos(calls, "ctx.connect") > 0
        IN  /\ attached =>
                /\ created
                /\ Pos(calls, "session.start") > 0
                /\ Pos(calls, "session.start") < Pos(calls, "attach_to_session")
            /\ (attached /\ connecting) =>
                Pos(calls, "attach_to_session") < Pos(calls, "ctx.connect")
            /\ registered =>
                /\ created
                /\ attached
                /\ job[j].shutdown_callbacks = <<"send_webhook">>
                /\ Count(calls, "add_shutdown_callback") = 1
            /\ connecting => (registered <=> created)
            /\ connecting => (attached <=> created)

\* One job connected with its handler attached, another connected without a handler.
C9_Witness ==
    \E j, k \in Jobs :
        /\ job[j].webhook_handler = "handler"
        /\ job[j].pc = "returned"
        /\ job[j].shutdown_callbacks = <<"send_webhook">>
        /\ job[k].webhook_handler = "None"
        /\ job[k].pc = "returned"

\* C11: with no webhook secret configured, verify_webhook_signature returns True
\* for every payload and signature, POST /webhook is never answered 401, and a
\* request with a wrong or absent signature is handled exactly as the same request
\* carrying a digest of its body.
C11_NoSecretSkipsCheck ==
    WEBHOOK_SECRET = "" =>
        /\ \A req \in WebhookRequests :
              verify_webhook_signature(req.body, req.signature) = [ret |-> TRUE, exc |-> ""]
        /\ IsWebhook(request) => response.status # 401
        /\ \A req \in WebhookRequests, now \in Timestamps :
              handle_webhook(req, now) =
                 handle_webhook([req EXCEPT !.signature = hexdigest("s3cret", req.body)], now)

\* Without a secret, a request whose signature is not ASCII was logged and answered 200.
C11_Witness ==
    /\ WEBHOOK_SECRET = ""
    /\ IsWebhook(request)
    /\ request.signature = NON_ASCII_SIGNATURE
    /\ response.status = 200
    /\ call_logs # <<>>

\* C12: with a secret configured, a POST /webhook request whose signature does not
\* match is answered 401 even when its body is empty, is not JSON, or would make
\* field extraction raise: 401 takes precedence over 400 and 500.
C12_MismatchBeforeParsing ==
    (/\ IsWebhook(request)
     /\ WEBHOOK_SECRET # ""
     /\ request.signature # hexdigest(WEBHOOK_SECRET, request.body)
     /\ request.body \in { BODY_EMPTY, BODY_GARBAGE, BODY_ROOM_NULL })
    => (response.status = 401 /\ raised = "")

\* All three LiveKit credentials of test_agent.py are set and non-empty.
TestCredentialsSet ==
    /\ test_environ.LIVEKIT_URL \notin { PyNone, PyStr("") }
    /\ test_environ.LIVEKIT_API_KEY \notin { PyNone, PyStr("") }
    /\ test_environ.LIVEKIT_API_SECRET \notin { PyNone, PyStr("") }

\* test_room_creation has ended, by returning or by an exception leaving it.
TestEnded == test.pc \in { "returned", "propagated" }

\* C13: in test_room_creation, once the LiveKit API client has been created,
\* aclose is called exactly once on every path, whether room creation, token
\* generation or room listing succeeds or raises; when any of LIVEKIT_URL,
\* LIVEKIT_API_KEY or LIVEKIT_API_SECRET is missing, the function returns without
\* creating a client or a room and without calling aclose.
C13_ClientClosedOnce ==
    /\ Count(test.calls, "aclose") <= 1
    /\ Count(test.calls, "aclose") = 1 => Pos(test.calls, "LiveKitAPI") = 1
    /\ TestEnded =>
          (Count(test.calls, "aclose") = 1 <=> Pos(test.calls, "LiveKitAPI") > 0)
    /\ ~TestCredentialsSet =>
          /\ test.calls = <<>>
          /\ test.pc \in { "getenv", "returned" }

\* Room creation raised after the client was created, and the function has returned.
C13_Witness ==
    /\ TestCredentialsSet
    /\ test.pc = "returned"
    /\ test.calls = <<"LiveKitAPI", "aclose">>

====
